---- MODULE Spec2Model ----
(***************************************************************************)
(* A model of bpystubgen's task tree and merge step                        *)
(* (src/bpystubgen/tasks.py).                                              *)
(*                                                                         *)
(* Text is modelled as sequences of one-character strings, so that         *)
(* str.split, str.join, str.islower and the ordering of paths are          *)
(* computed the way Python computes them.                                  *)
(***************************************************************************)
EXTENDS Integers, Sequences, FiniteSets, TLC

VARIABLES
    files,      \* the documentation files under src_dir (relative paths)
    phase,      \* position of the run
    pending,    \* the files Task.create still has to index, in sorted order
    tasks,      \* the arena of Task objects, in construction order
    assigned,   \* per task: how many times Task.create assigned its source
    order,      \* the tasks as iterating the root yielded them
    cursor,     \* position of the driver's loop in order
    parseLog,   \* the tasks whose parse was called, in call order
    crashed,    \* whether the last parse raised instead of returning
    content,    \* per file: the fragment the parser reads from it
    nodes,      \* the arena of document nodes, in construction order
    firstTree,  \* per task: the Module tree its first parse produced
    reparsed,   \* the tasks whose parse was called a second time
    outputs     \* the stub files written: target path and tree

vars == <<files, phase, pending, tasks, assigned, order, cursor, parseLog,
          crashed, content, nodes, firstTree, reparsed, outputs>>

----------------------------------------------------------------------------
(* Bounds of the model. *)

MaxFiles == 3
MaxTasks == 3
MaxReparse == 1
MaxArgs == 2

----------------------------------------------------------------------------
(* Text. *)

\* The characters the model uses, in code point order.
Alphabet ==
    <<".", "C", "N", "_", "b", "c", "d", "i", "n", "p", "r", "s", "t", "y">>

Ord(ch) == CHOOSE i \in 1..Len(Alphabet) : Alphabet[i] = ch

Lower == {"b", "c", "d", "i", "n", "p", "r", "s", "t", "y"}

\* str.islower() of a one-character string
IsLower(ch) == ch \in Lower

Front(s) == SubSeq(s, 1, Len(s) - 1)

\* F applied to the value of v, which is computed once
Bind(v, F(_)) == CHOOSE r \in {F(x) : x \in {v}} : TRUE

RECURSIVE SplitFrom(_, _, _)
\* the pieces of s separated by sep, where cur is the piece being read
SplitFrom(s, sep, cur) ==
    IF s = <<>> THEN <<cur>>
    ELSE IF Head(s) = sep THEN <<cur>> \o SplitFrom(Tail(s), sep, <<>>)
    ELSE SplitFrom(Tail(s), sep, Append(cur, Head(s)))

\* str.split(sep)
Split(s, sep) == SplitFrom(s, sep, <<>>)

RECURSIVE Join(_, _)
\* sep.join(parts)
Join(parts, sep) ==
    IF parts = <<>> THEN <<>>
    ELSE IF Len(parts) = 1 THEN parts[1]
    ELSE parts[1] \o <<sep>> \o Join(Tail(parts), sep)

RECURSIVE JoinText(_, _)
\* sep.join(parts) for a separator of any length
JoinText(parts, sep) ==
    IF parts = <<>> THEN <<>>
    ELSE IF Len(parts) = 1 THEN parts[1]
    ELSE parts[1] \o sep \o JoinText(Tail(parts), sep)

RECURSIVE StrLess(_, _)
\* a < b on str: lexicographic by code point
StrLess(a, b) ==
    IF b = <<>> THEN FALSE
    ELSE IF a = <<>> THEN TRUE
    ELSE IF Head(a) = Head(b) THEN StrLess(Tail(a), Tail(b))
    ELSE Ord(Head(a)) < Ord(Head(b))

RECURSIVE PathLess(_, _)
\* a < b on Path: lexicographic over the parts
PathLess(a, b) ==
    IF b = <<>> THEN FALSE
    ELSE IF a = <<>> THEN TRUE
    ELSE IF Head(a) = Head(b) THEN PathLess(Tail(a), Tail(b))
    ELSE StrLess(Head(a), Head(b))

RECURSIVE InsertSorted(_, _)
InsertSorted(p, s) ==
    IF s = <<>> THEN <<p>>
    ELSE IF PathLess(p, Head(s)) THEN <<p>> \o s
    ELSE <<Head(s)>> \o InsertSorted(p, Tail(s))

RECURSIVE SortedPaths(_)
SortedPaths(s) ==
    IF s = <<>> THEN <<>> ELSE InsertSorted(Head(s), SortedPaths(Tail(s)))

\* the listing as rglob yielded it, left unsorted
Unsorted(listing) == listing

\* sorted(src_dir.rglob(pattern)) of Task.create
Sorted(listing) == SortedPaths(listing)

\* every order in which rglob may yield the files of the set S
Listings(S) ==
    {l \in [1..Cardinality(S) -> S] : \A f \in S : \E i \in DOMAIN l : l[i] = f}

----------------------------------------------------------------------------
(* The documentation files. *)

Ext == <<"r", "s", "t">>

\* the name of the file documenting the dotted name segs
FileName(segs) == Join(Append(segs, Ext), ".")

FileUniverse ==
    { <<FileName(<<<<"b">>>>)>>,
      <<FileName(<<<<"b">>, <<"c">>>>)>>,
      <<FileName(<<<<"b">>, <<"d">>>>)>>,
      <<FileName(<<<<"b">>, <<"C">>>>)>>,
      <<FileName(<<<<"b">>, <<"_">>>>)>>,
      <<FileName(<<<<"b">>, <<"c">>, <<"d">>>>)>>,
      <<FileName(<<<<"b">>, <<"C">>, <<"c">>>>)>>,
      <<<<"d">>, FileName(<<<<"b">>>>)>> }

\* file.name
BaseName(file) == file[Len(file)]

None == <<>>

----------------------------------------------------------------------------
(* Task (tasks.py).  A task is a record of the arena; 0 stands for None. *)

Root == 1

NewTask == [name |-> <<>>, parent |-> 0, kind |-> "Task", children |-> <<>>,
            full_name |-> <<>>, source |-> None, doctree |-> 0]

RECURSIVE Ancestors(_, _)
\* Task.ancestors: the chain of parents, outermost first
Ancestors(ts, t) ==
    IF ts[t].parent # 0
    THEN Append(Ancestors(ts, ts[t].parent), ts[t].parent)
    ELSE <<>>

\* Task.keys()
Keys(ts, t) == {ts[t].children[i].key : i \in DOMAIN ts[t].children}

\* Task.__getitem__
GetItem(ts, t, key) ==
    LET i == CHOOSE j \in DOMAIN ts[t].children : ts[t].children[j].key = key
    IN  ts[t].children[i].id

\* Task.values(): the children in the order of the dict
Values(ts, t) == [i \in DOMAIN ts[t].children |-> ts[t].children[i].id]

\* parent._children[key] = id, on a dict that keeps insertion order
DictSet(children, key, id) ==
    IF \E i \in DOMAIN children : children[i].key = key
    THEN [i \in DOMAIN children |->
            IF children[i].key = key THEN [key |-> key, id |-> id]
            ELSE children[i]]
    ELSE Append(children, [key |-> key, id |-> id])

\* the full name Task.__init__ computes for a task with a parent
FullNameUnder(ts, name, parent) ==
    LET chain == Append(Ancestors(ts, parent), parent)
        names == [i \in DOMAIN chain |-> ts[chain[i]].name]
        NonEmpty(n) == n # <<>>
    IN  Join(Append(SelectSeq(names, NonEmpty), name), ".")

\* Task.__init__ / ParserTask.__init__: the arena after constructing
\* kind(name, parent); the new task is the last of the arena
Construct(ts, kind, name, parent) ==
    LET id == Len(ts) + 1
        new == [name |-> name, parent |-> parent, kind |-> kind,
                children |-> <<>>,
                full_name |-> IF parent # 0
                              THEN FullNameUnder(ts, name, parent)
                              ELSE name,
                source |-> None, doctree |-> 0]
        linked == IF parent # 0
                  THEN [ts EXCEPT ![parent].children = DictSet(@, name, id)]
                  ELSE ts
    IN  Append(linked, new)

Upper == {"C", "N"}

\* the variant a segment would get if capitals alone made a Class
VariantByUpper(name) ==
    IF name[1] \in Upper THEN "ClassTask" ELSE "ModuleTask"

\* the variant resolve picks for a new segment
VariantOf(name) == IF IsLower(name[1]) THEN "ModuleTask" ELSE "ClassTask"

RECURSIVE Resolve(_, _, _)
\* resolve(path, context) of Task.create: the arena and the task reached
Resolve(ts, path, context) ==
    LET name == path[1]
        found == name \in Keys(ts, context)
        Rest(ts2) ==
            LET child == IF found THEN GetItem(ts, context, name) ELSE Len(ts2)
            IN  IF Len(path) = 1 THEN [ts |-> ts2, task |-> child]
                ELSE Resolve(ts2, Tail(path), child)
    IN  Bind(IF found THEN ts
             ELSE Construct(ts, VariantOf(name), name, context), Rest)

\* file.name.split(".")[:-1]
Segments(file) == Front(Split(BaseName(file), "."))

\* one iteration of the loop of Task.create
IndexFile(ts, file) ==
    LET Assign(r) ==
            [ts |-> [r.ts EXCEPT ![r.task].source = file], task |-> r.task]
    IN  Bind(Resolve(ts, Segments(file), Root), Assign)

RECURSIVE IndexAll(_, _)
IndexAll(ts, fs) ==
    LET Rest(next) == IndexAll(next, Tail(fs))
    IN  IF fs = <<>> THEN ts ELSE Bind(IndexFile(ts, Head(fs)).ts, Rest)

\* Task.create on a directory whose rglob yields listing
Create(listing) == IndexAll(<<NewTask>>, Sorted(listing))

\* the iteration that yields each child before the child's own iteration
RECURSIVE IterPreOrder(_, _)
IterPreOrder(ts, t) ==
    LET RECURSIVE Over(_)
        Over(cs) ==
            IF cs = <<>> THEN <<>>
            ELSE <<Head(cs)>> \o IterPreOrder(ts, Head(cs)) \o Over(Tail(cs))
    IN  Over(Values(ts, t))

RECURSIVE Iter(_, _)
\* Task.__iter__: each child's own iteration, then the child
Iter(ts, t) ==
    LET RECURSIVE Over(_)
        Over(cs) ==
            IF cs = <<>> THEN <<>>
            ELSE Iter(ts, Head(cs)) \o <<Head(cs)>> \o Over(Tail(cs))
    IN  Over(Values(ts, t))

IsModuleTask(ts, t) == ts[t].kind = "ModuleTask"
IsClassTask(ts, t) == ts[t].kind = "ClassTask"

\* what top_level would be if it looked at the ancestors' names
TopLevelByName(ts, t) ==
    \A i \in DOMAIN Ancestors(ts, t) : ts[Ancestors(ts, t)[i]].name = <<>>

\* top_level of target_path: not any(self.ancestors), every Task being truthy
TopLevel(ts, t) == Ancestors(ts, t) = <<>>

\* has_submodule of target_path
HasSubmodule(ts, t) ==
    \E i \in DOMAIN ts[t].children : IsModuleTask(ts, ts[t].children[i].id)

Dest == <<"d", "s", "t">>
InitPyi == <<"_", "_", "i", "n", "i", "t", "_", "_", ".", "p", "y", "i">>
Pyi == <<".", "p", "y", "i">>

\* Path(dest_dir, rel): the parts of the path, rel being "/"-joined segments
PathUnder(dest, segs) == <<dest>> \o SelectSeq(segs, LAMBDA s : s # <<>>)

\* ModuleTask.target_path
TargetPath(ts, t, dest) ==
    IF TopLevel(ts, t) \/ HasSubmodule(ts, t)
    THEN Append(PathUnder(dest, Split(ts[t].full_name, ".")), InitPyi)
    ELSE Append(PathUnder(dest, Front(Split(ts[t].full_name, "."))),
                ts[t].name \o Pyi)

----------------------------------------------------------------------------
(* Document nodes.  A node is a record of the arena; 0 stands for None.    *)
(* An Import node keeps its module in name and its imported name in type.  *)

NewNode(kind, name, type) ==
    [kind |-> kind, name |-> name, type |-> type, parent |-> 0,
     children |-> <<>>]

\* the arena after constructing a node that is attached nowhere
AddNode(ns, kind, name, type) == Append(ns, NewNode(kind, name, type))

\* a removal that leaves the container as it was
NodeRemoveNothing(ns, container, n) == ns

\* container.remove(n): the first occurrence of n leaves the children
NodeRemove(ns, container, n) ==
    LET cs == ns[container].children
        i == CHOOSE j \in DOMAIN cs :
                 cs[j] = n /\ \A k \in 1..(j - 1) : cs[k] # n
    IN  [ns EXCEPT ![container].children =
            SubSeq(cs, 1, i - 1) \o SubSeq(cs, i + 1, Len(cs))]

\* container.insert(index, n), index counted from 0: n becomes a child of
\* container at that position
NodeInsert(ns, container, index, n) ==
    LET cs == ns[container].children
        at == IF index > Len(cs) THEN Len(cs) ELSE index
    IN  [ns EXCEPT ![container].children =
                SubSeq(cs, 1, at) \o <<n>> \o SubSeq(cs, at + 1, Len(cs)),
            ![n].parent = container]

\* container += n
NodeAppend(ns, container, n) ==
    [ns EXCEPT ![container].children = Append(@, n), ![n].parent = container]

RECURSIVE Traverse(_, _, _)
\* n.traverse(kind): n and its descendants of that kind, in document order
Traverse(ns, n, kind) ==
    LET RECURSIVE Over(_)
        Over(cs) ==
            IF cs = <<>> THEN <<>>
            ELSE Traverse(ns, Head(cs), kind) \o Over(Tail(cs))
    IN  (IF ns[n].kind = kind THEN <<n>> ELSE <<>>) \o Over(ns[n].children)

RECURSIVE TreeView(_, _)
\* the tree under n as the emitter reads it: kinds, names, types and order
TreeView(ns, n) ==
    [kind |-> ns[n].kind, name |-> ns[n].name, type |-> ns[n].type,
     children |-> [i \in DOMAIN ns[n].children |->
                      TreeView(ns, ns[n].children[i])]]

Range(s) == {s[i] : i \in DOMAIN s}

----------------------------------------------------------------------------
(* The fragment parser: what publish_doctree builds from a file.           *)

ModuleShapes == {"bare", "documented"}
ClassShapes == {"single", "nested"}

External == <<"p", ".", "C">>

\* the document parsed from the file of a Module task: a Module node named
\* by the file's dotted name, bare or with a docstring and a function
PublishModule(ns, file, shape) ==
    LET doc == Len(ns) + 1
        mod == doc + 1
        n1 == AddNode(ns, "document", <<>>, <<>>)
        n2 == NodeAppend(AddNode(n1, "Module", Join(Segments(file), "."),
                                 <<>>), doc, mod)
        n3 == NodeAppend(AddNode(n2, "docstring", <<>>, <<>>), mod, mod + 1)
        n4 == NodeAppend(AddNode(n3, "Function", <<"n">>, External),
                         mod, mod + 2)
    IN  [ns |-> IF shape = "documented" THEN n4 ELSE n2, doc |-> doc]

\* the document parsed from the file of a Class task: a Class node named by
\* the file's last segment, alone or holding a nested Class
PublishClass(ns, file, shape) ==
    LET doc == Len(ns) + 1
        cls == doc + 1
        segs == Segments(file)
        n1 == AddNode(ns, "document", <<>>, <<>>)
        n2 == NodeAppend(AddNode(n1, "Class", segs[Len(segs)], <<>>),
                         doc, cls)
        n3 == NodeAppend(AddNode(n2, "Class", <<"N">>, <<>>), cls, cls + 1)
    IN  [ns |-> IF shape = "nested" THEN n3 ELSE n2, doc |-> doc]

ShapesFor(ts, t) ==
    IF IsModuleTask(ts, t) THEN ModuleShapes ELSE ClassShapes

\* ParserTask.parse: the task's doctree is the parsed file, or None
ParserParse(ts, ns, t, shape) ==
    IF ts[t].source # None
    THEN LET r == IF IsModuleTask(ts, t)
                  THEN PublishModule(ns, ts[t].source, shape)
                  ELSE PublishClass(ns, ts[t].source, shape)
         IN  [ts |-> [ts EXCEPT ![t].doctree = r.doc], ns |-> r.ns]
    ELSE [ts |-> [ts EXCEPT ![t].doctree = 0], ns |-> ns]

----------------------------------------------------------------------------
(* Module nodes: the operations ModuleTask.parse calls on the Module.      *)

\* Module.docstring: the docstring node leading the Module, or None
Docstring(ns, module) ==
    LET cs == ns[module].children
    IN  IF cs # <<>> /\ ns[cs[1]].kind = "docstring" THEN cs[1] ELSE 0

\* Module.localise_name: a name qualified by the module's own name loses
\* that prefix; any other name is kept
LocaliseName(moduleName, name) ==
    LET segs == Split(name, ".")
    IN  IF Len(segs) >= 2 /\ Join(Front(segs), ".") = moduleName
        THEN segs[Len(segs)]
        ELSE name

\* the module a qualified type names, or None for a bare name
PrefixOf(type) ==
    LET segs == Split(type, ".")
    IN  IF Len(segs) >= 2 THEN Join(Front(segs), ".") ELSE None

RECURSIVE Descendants(_, _)
\* the nodes below n, in document order
Descendants(ns, n) ==
    LET RECURSIVE Over(_)
        Over(cs) ==
            IF cs = <<>> THEN <<>>
            ELSE <<Head(cs)>> \o Descendants(ns, Head(cs)) \o Over(Tail(cs))
    IN  Over(ns[n].children)

\* Module.import_types: one Import node per other module that a type of the
\* Module's subtree names
ImportTypes(ns, module) ==
    LET below == Descendants(ns, module)
        Needs(n) == /\ ns[n].kind \in {"Function", "Argument"}
                    /\ PrefixOf(ns[n].type) # None
                    /\ PrefixOf(ns[n].type) # ns[module].name
        users == SelectSeq(below, Needs)
        First(i) == \A k \in 1..(i - 1) :
                        PrefixOf(ns[users[k]].type) # PrefixOf(ns[users[i]].type)
        RECURSIVE Add(_, _)
        Add(arena, i) ==
            LET type == ns[users[i]].type
                segs == Split(type, ".")
                Rest(made) == Add(made, i + 1)
            IN  IF i > Len(users) THEN arena
                ELSE IF First(i)
                THEN Bind(NodeAppend(AddNode(arena, "Import", PrefixOf(type),
                                             segs[Len(segs)]),
                                     module, Len(arena) + 1), Rest)
                ELSE Add(arena, i + 1)
    IN  Add(ns, 1)

KindRank(kind) ==
    CASE kind = "docstring" -> 0
      [] kind = "Import" -> 1
      [] kind = "Class" -> 2
      [] OTHER -> 3

\* whether member a goes before member b: by kind, then by name
MemberBefore(ns, a, b) ==
    \/ KindRank(ns[a].kind) < KindRank(ns[b].kind)
    \/ /\ KindRank(ns[a].kind) = KindRank(ns[b].kind)
       /\ StrLess(ns[a].name, ns[b].name)

RECURSIVE InsertMember(_, _, _)
InsertMember(ns, n, s) ==
    IF s = <<>> THEN <<n>>
    ELSE IF MemberBefore(ns, Head(s), n) \/ ~MemberBefore(ns, n, Head(s))
    THEN <<Head(s)>> \o InsertMember(ns, n, Tail(s))
    ELSE <<n>> \o s

RECURSIVE SortIds(_, _, _)
SortIds(ns, s, acc) ==
    LET Rest(next) == SortIds(ns, Tail(s), next)
    IN  IF s = <<>> THEN acc ELSE Bind(InsertMember(ns, Head(s), acc), Rest)

\* Module.sort_members: a stable sort of the Module's direct children
SortMembers(ns, module) ==
    [ns EXCEPT ![module].children = SortIds(ns, @, <<>>)]

----------------------------------------------------------------------------
(* ModuleTask.parse. *)

RECURSIVE MoveNodes(_, _, _)
\* the inner loop over a Class child's Class nodes: each leaves its parent
\* and is appended to the Module
MoveNodes(ns, list, module) ==
    LET n == Head(list)
        Rest(moved) == MoveNodes(moved, Tail(list), module)
    IN  IF list = <<>> THEN ns
        ELSE Bind(NodeAppend(NodeRemove(ns, ns[n].parent, n), module, n), Rest)

RECURSIVE MergeClasses(_, _, _, _)
\* the loop over the Class child tasks; a child without a doctree raises
MergeClasses(ts, ns, module, cs) ==
    LET Rest(moved) == MergeClasses(ts, moved, module, Tail(cs))
    IN  IF cs = <<>> THEN [ns |-> ns, ok |-> TRUE]
        ELSE IF ts[Head(cs)].doctree = 0 THEN [ns |-> ns, ok |-> FALSE]
        ELSE Bind(MoveNodes(ns, Traverse(ns, ts[Head(cs)].doctree, "Class"),
                            module), Rest)

\* the index that ignores the docstring
ImportIndexZero(ns, module) == 0

\* index = 1 if module.docstring else 0
ImportIndex(ns, module) == IF Docstring(ns, module) # 0 THEN 1 ELSE 0

RECURSIVE ImportModules(_, _, _, _)
\* the inner loop over a submodule's Module nodes: an Import of each is
\* inserted at the fixed index
ImportModules(ns, list, module, index) ==
    LET Rest(made) == ImportModules(made, Tail(list), module, index)
    IN  IF list = <<>> THEN ns
        ELSE Bind(NodeInsert(
                      AddNode(ns, "Import", <<".">>,
                          LocaliseName(ns[module].name, ns[Head(list)].name)),
                      module, index, Len(ns) + 1), Rest)

RECURSIVE ImportSubmodules(_, _, _, _, _)
\* the loop over the Module child tasks; a child without a doctree raises
ImportSubmodules(ts, ns, module, index, cs) ==
    LET Rest(made) == ImportSubmodules(ts, made, module, index, Tail(cs))
    IN  IF cs = <<>> THEN [ns |-> ns, ok |-> TRUE]
        ELSE IF ts[Head(cs)].doctree = 0 THEN [ns |-> ns, ok |-> FALSE]
        ELSE Bind(ImportModules(ns,
                      Traverse(ns, ts[Head(cs)].doctree, "Module"),
                      module, index), Rest)

\* the Class child tasks and the Module child tasks, in the dict's order
ClassChildren(ts, t) == SelectSeq(Values(ts, t), LAMBDA c : IsClassTask(ts, c))
ModuleChildren(ts, t) == SelectSeq(Values(ts, t), LAMBDA c : IsModuleTask(ts, c))

\* the Module node of a task's doctree: next(iter(doctree.traverse(Module)))
ModuleNode(ts, ns, t) == Traverse(ns, ts[t].doctree, "Module")[1]

\* lines 146-148: a task without a parsed document gets a new document
\* holding an empty Module named after the task
WithDocument(ts, ns, t) ==
    LET doc == Len(ns) + 1
    IN  IF ts[t].doctree # 0 THEN [ts |-> ts, ns |-> ns]
        ELSE [ts |-> [ts EXCEPT ![t].doctree = doc],
              ns |-> NodeAppend(AddNode(AddNode(ns, "document", <<>>, <<>>),
                                        "Module", ts[t].name, <<>>),
                                doc, doc + 1)]

\* lines 161-168: the types are imported, the members sorted, and the
\* submodules imported at the index the docstring decides
Finish(ts, ns, t, module) ==
    LET Submodules(sorted) ==
            ImportSubmodules(ts, sorted, module, ImportIndex(sorted, module),
                             ModuleChildren(ts, t))
        Sort(typed) == Bind(SortMembers(typed, module), Submodules)
    IN  Bind(ImportTypes(ns, module), Sort)

\* lines 152-170: the merge into the Module node of the task's document
Merge(ts, ns, t) ==
    LET module == ModuleNode(ts, ns, t)
        Rest(merged) ==
            IF ~merged.ok THEN [ts |-> ts, ns |-> merged.ns, ok |-> FALSE]
            ELSE LET Result(r) == [ts |-> ts, ns |-> r.ns, ok |-> r.ok]
                 IN  Bind(Finish(ts, merged.ns, t, module), Result)
    IN  Bind(MergeClasses(ts, ns, module, ClassChildren(ts, t)), Rest)

\* ModuleTask.parse: the arenas after the call, and whether it returned
ModuleParse(ts, ns, t, shape) ==
    LET Merged(d) == Merge(d.ts, d.ns, t)
        Documented(p) == Bind(WithDocument(p.ts, p.ns, t), Merged)
    IN  Bind(ParserParse(ts, ns, t, shape), Documented)

\* task.parse(settings, env), as the task's class defines it
Parse(ts, ns, t, shape) ==
    IF IsModuleTask(ts, t) THEN ModuleParse(ts, ns, t, shape)
    ELSE LET p == ParserParse(ts, ns, t, shape)
         IN  [ts |-> p.ts, ns |-> p.ns, ok |-> TRUE]

PyTyped == <<"p", "y", ".", "t", "y", "p", "e", "d">>

\* ModuleTask.generate: the stub written at the target path, beside the
\* marker file, replacing what an earlier call wrote there
Generate(ts, ns, out, t) ==
    LET target == TargetPath(ts, t, Dest)
        stub == [target |-> target,
                 marker |-> Append(Front(target), PyTyped),
                 task |-> t,
                 tree |-> TreeView(ns, ts[t].doctree)]
    IN  {o \in out : o.target # target} \cup {stub}

----------------------------------------------------------------------------
(* The run: Task.create, then parse and generate over the root's iteration *)

NoTree == [kind |-> "none"]

Init ==
    /\ files \in {S \in SUBSET FileUniverse : Cardinality(S) <= MaxFiles}
    /\ phase = "init"
    /\ pending = <<>>
    /\ tasks = <<NewTask>>
    /\ assigned = <<0>>
    /\ order = <<>>
    /\ cursor = 1
    /\ parseLog = <<>>
    /\ crashed = FALSE
    /\ content = [f \in files |-> "unread"]
    /\ nodes = <<>>
    /\ firstTree = <<NoTree>>
    /\ reparsed = {}
    /\ outputs = {}

\* Task.create starts: rglob yields the files in some order, sorted sorts
StartCreate ==
    /\ phase = "init"
    /\ \E l \in Listings(files) : pending' = Sorted(l)
    /\ phase' = "indexing"
    /\ UNCHANGED <<files, tasks, assigned, order, cursor, parseLog, crashed,
                   content, nodes, firstTree, reparsed, outputs>>

\* one iteration of the loop of Task.create
IndexNext ==
    /\ phase = "indexing"
    /\ pending # <<>>
    /\ \E r \in {IndexFile(tasks, Head(pending))} :
           /\ tasks' = r.ts
           /\ assigned' = [i \in DOMAIN r.ts |->
                              (IF i \in DOMAIN assigned THEN assigned[i] ELSE 0)
                              + (IF i = r.task THEN 1 ELSE 0)]
    /\ pending' = Tail(pending)
    /\ UNCHANGED <<files, phase, order, cursor, parseLog, crashed, content,
                   nodes, firstTree, reparsed, outputs>>

\* Task.create returns the root; the driver starts iterating it
CreateDone ==
    /\ phase = "indexing"
    /\ pending = <<>>
    /\ phase' = "parsing"
    /\ order' = Iter(tasks, Root)
    /\ cursor' = 1
    /\ firstTree' = [t \in DOMAIN tasks |-> NoTree]
    /\ UNCHANGED <<files, pending, tasks, assigned, parseLog, crashed,
                   content, nodes, reparsed, outputs>>

\* the fragments the parser may read from the file of task t
Readable(t) ==
    IF tasks[t].source = None THEN {"bare"}
    ELSE IF content[tasks[t].source] = "unread" THEN ShapesFor(tasks, t)
    ELSE {content[tasks[t].source]}

\* a call of task.parse: the task's doctree, the nodes it moved or made
CallParse(t, shape) ==
    \E r \in {Parse(tasks, nodes, t, shape)} :
        /\ tasks' = r.ts
        /\ nodes' = r.ns
        /\ crashed' = ~r.ok
        /\ parseLog' = Append(parseLog, t)
        /\ content' = IF tasks[t].source = None THEN content
                      ELSE [content EXCEPT ![tasks[t].source] = shape]
        /\ firstTree' = IF r.ok /\ IsModuleTask(tasks, t) /\ firstTree[t] = NoTree
                        THEN [firstTree EXCEPT
                                 ![t] = TreeView(r.ns, r.ts[t].doctree)]
                        ELSE firstTree

\* the driver parses the next task of the root's iteration
ParseNext ==
    /\ phase = "parsing"
    /\ cursor <= Len(order)
    /\ \E shape \in Readable(order[cursor]) : CallParse(order[cursor], shape)
    /\ cursor' = cursor + 1
    /\ phase' = IF crashed' THEN "failed" ELSE phase
    /\ UNCHANGED <<files, pending, assigned, order, reparsed, outputs>>

ParseDone ==
    /\ phase = "parsing"
    /\ cursor > Len(order)
    /\ phase' = "emitting"
    /\ cursor' = 1
    /\ UNCHANGED <<files, pending, tasks, assigned, order, parseLog, crashed,
                   content, nodes, firstTree, reparsed, outputs>>

\* ModuleTask.parse is called a second time on a task not yet generated
Reparse(t) ==
    /\ phase = "emitting"
    /\ Cardinality(reparsed) < MaxReparse
    /\ t \notin reparsed
    /\ IsModuleTask(tasks, t)
    /\ \E i \in cursor..Len(order) : order[i] = t
    /\ \E shape \in Readable(t) : CallParse(t, shape)
    /\ reparsed' = reparsed \cup {t}
    /\ phase' = IF crashed' THEN "failed" ELSE phase
    /\ UNCHANGED <<files, pending, assigned, order, cursor, outputs>>

\* the driver generates the next Module task of the root's iteration
GenerateNext ==
    /\ phase = "emitting"
    /\ cursor <= Len(order)
    /\ outputs' = IF IsModuleTask(tasks, order[cursor])
                  THEN Generate(tasks, nodes, outputs, order[cursor])
                  ELSE outputs
    /\ cursor' = cursor + 1
    /\ UNCHANGED <<files, phase, pending, tasks, assigned, order, parseLog,
                   crashed, content, nodes, firstTree, reparsed>>

Stop ==
    /\ phase = "emitting"
    /\ cursor > Len(order)
    /\ phase' = "done"
    /\ UNCHANGED <<files, pending, tasks, assigned, order, cursor, parseLog,
                   crashed, content, nodes, firstTree, reparsed, outputs>>

Next ==
    \/ StartCreate
    \/ IndexNext
    \/ CreateDone
    \/ ParseNext
    \/ ParseDone
    \/ \E t \in DOMAIN tasks : Reparse(t)
    \/ GenerateNext
    \/ Stop

Spec == Init /\ [][Next]_vars

----------------------------------------------------------------------------
(* Tasks built by calling the constructors directly, with or without a     *)
(* parent.                                                                 *)

CtorNames == {<<"b">>, <<"c">>}

\* ModuleTask(name, parent) or ClassTask(name, parent)
NewParserTask(kind, name, parent) ==
    /\ Len(tasks) <= MaxTasks
    /\ tasks' = Construct(tasks, kind, name, parent)
    /\ UNCHANGED <<files, phase, pending, assigned, order, cursor, parseLog,
                   crashed, content, nodes, firstTree, reparsed, outputs>>

InitCtor == Init /\ files = {}

NextCtor ==
    \E kind \in {"ModuleTask", "ClassTask"}, name \in CtorNames,
       parent \in {0} \cup DOMAIN tasks :
        NewParserTask(kind, name, parent)

SpecCtor == InitCtor /\ [][NextCtor]_vars

----------------------------------------------------------------------------
(* Claims about the task tree. *)

\* the directories of a task's full name, read off the chain of its parents
NameChain(t) ==
    LET chain == Append(Ancestors(tasks, t), t)
        names == [i \in DOMAIN chain |-> tasks[chain[i]].name]
    IN  SelectSeq(names, LAMBDA n : n # <<>>)

HasModuleChild(t) ==
    \E u \in DOMAIN tasks :
        /\ IsModuleTask(tasks, u)
        /\ \E i \in DOMAIN tasks[t].children : tasks[t].children[i].id = u

PackagePath(t) == <<Dest>> \o NameChain(t) \o <<InitPyi>>
LeafPath(t) == <<Dest>> \o Front(NameChain(t)) \o <<tasks[t].name \o Pyi>>

\* C1: for every Module Task, target_path(dest) is the package path
\* <dest>/<full name as directories>/__init__.pyi when the task has no
\* parent or has a Module child Task, and otherwise the leaf path
\* <dest>/<full name without its last segment>/<name>.pyi.
C1_TargetPathRule ==
    \A t \in DOMAIN tasks :
        IsModuleTask(tasks, t) =>
            TargetPath(tasks, t, Dest) =
                IF tasks[t].parent = 0 \/ HasModuleChild(t)
                THEN PackagePath(t) ELSE LeafPath(t)

C1_Witness ==
    /\ \E t \in DOMAIN tasks :
          IsModuleTask(tasks, t) /\ tasks[t].parent = 0 /\ ~HasModuleChild(t)
    /\ \E t \in DOMAIN tasks :
          /\ IsModuleTask(tasks, t) /\ tasks[t].parent # 0
          /\ ~HasModuleChild(t)
    /\ \E t \in DOMAIN tasks :
          /\ IsModuleTask(tasks, t) /\ tasks[t].parent # 0
          /\ HasModuleChild(t)

\* C2: in a tree built by Task.create, every top-level Module Task (its
\* full name is a single segment) is emitted as a package: its target path
\* is <dest>/<name>/__init__.pyi, with or without a submodule Task.
C2_TopLevelIsPackage ==
    \A t \in DOMAIN tasks :
        (IsModuleTask(tasks, t) /\ tasks[t].parent = Root) =>
            /\ TargetPath(tasks, t, Dest) = <<Dest, tasks[t].name, InitPyi>>
            /\ \A o \in outputs :
                   o.task = t => o.target = <<Dest, tasks[t].name, InitPyi>>

RECURSIVE TaskShape(_, _)
\* the tree under t: names, variants, sources and the order of the children
TaskShape(ts, t) ==
    [name |-> ts[t].name, full_name |-> ts[t].full_name, kind |-> ts[t].kind,
     source |-> ts[t].source,
     children |-> [i \in DOMAIN ts[t].children |->
                      TaskShape(ts, ts[t].children[i].id)]]

Created == phase = "parsing" /\ parseLog = <<>>

\* C3: Task.create is deterministic in the set of files: whatever order the
\* directory listing yields them in, the tree built has the same names, the
\* same shape, the same variants and the same source on each task.
C3_CreateDeterministic ==
    Created =>
        \A l \in Listings(files) :
            TaskShape(Create(l), Root) = TaskShape(tasks, Root)

C3_Witness ==
    /\ Created
    /\ \E t \in DOMAIN tasks : assigned[t] = 2 /\ tasks[t].children # <<>>

C4_Variants ==
    \A t \in DOMAIN tasks :
        t # Root =>
            /\ tasks[t].kind \in {"ModuleTask", "ClassTask"}
            /\ IsModuleTask(tasks, t) <=> IsLower(tasks[t].name[1])
            /\ \A u \in DOMAIN tasks :
                   (u # t /\ tasks[u].parent = tasks[t].parent) =>
                       tasks[u].name # tasks[t].name

C4_Kept ==
    \A t \in DOMAIN tasks :
        /\ t \in DOMAIN tasks'
        /\ tasks'[t].kind = tasks[t].kind
        /\ tasks'[t].name = tasks[t].name
        /\ tasks'[t].parent = tasks[t].parent

\* C4: in every tree Task.create builds, after any number of indexed files,
\* a non-root task is a Module Task exactly when its name starts with a
\* lowercase character and a Class Task otherwise; a segment met again under
\* the same parent is the existing task, and no task changes its variant.
C4_VariantByCasing == []C4_Variants /\ [][C4_Kept]_vars

C4_Witness ==
    /\ Created
    /\ \E t \in DOMAIN tasks : IsClassTask(tasks, t) /\ tasks[t].name = <<"_">>
    /\ \E t \in DOMAIN tasks : IsClassTask(tasks, t) /\ tasks[t].name = <<"C">>
    /\ \E t \in DOMAIN tasks : IsModuleTask(tasks, t) /\ Len(tasks[t].children) >= 2

\* the files whose dotted name is the full name of t
FilesOf(t) == {f \in files : Join(Segments(f), ".") = tasks[t].full_name}

\* C7: during one run of Task.create over the files under the source
\* directory, at any depth, each task's source is assigned exactly once,
\* and only when a file's segment path resolves to the task; a task that is
\* only a prefix of file names never has a source.
C7_SourceAssignedOnce ==
    \A t \in DOMAIN tasks :
        /\ assigned[t] <= 1
        /\ (phase # "indexing" /\ FilesOf(t) # {}) => assigned[t] = 1
        /\ FilesOf(t) = {} => (assigned[t] = 0 /\ tasks[t].source = None)

----------------------------------------------------------------------------
(* Claims about the traversal and the merge. *)

\* per task, the tasks below it, read off the parent links
ProperDescendants ==
    LET above == [u \in DOMAIN tasks |-> Range(Ancestors(tasks, u))]
    IN  [t \in DOMAIN tasks |-> {u \in DOMAIN tasks : t \in above[u]}]

C8_IterPostOrder(below, t) ==
    \A it \in {Iter(tasks, t)} :
        /\ Range(it) = below[t]
        /\ Len(it) = Cardinality(Range(it))
        /\ \A i, j \in DOMAIN it : it[j] \in below[it[i]] => j < i

C8_ChildrenParsedFirst ==
    \A i \in DOMAIN parseLog :
        IsModuleTask(tasks, parseLog[i]) =>
            \A k \in DOMAIN tasks[parseLog[i]].children :
                \E j \in 1..(i - 1) :
                    parseLog[j] = tasks[parseLog[i]].children[k].id

\* C8: iterating a Task yields every proper descendant exactly once, never
\* the task itself, and each task only after all of its own descendants; so
\* when the tasks are parsed in the order of the root's iteration, a Module
\* Task is merged only after each of its child Tasks was parsed.
C8_PostOrder ==
    /\ \A below \in {ProperDescendants} :
           \A t \in DOMAIN tasks : C8_IterPostOrder(below, t)
    /\ C8_ChildrenParsedFirst

C8_Witness ==
    \E i \in DOMAIN parseLog :
        /\ IsModuleTask(tasks, parseLog[i])
        /\ ClassChildren(tasks, parseLog[i]) # <<>>
        /\ ModuleChildren(tasks, parseLog[i]) # <<>>
        /\ \E c \in Range(Values(tasks, parseLog[i])) : tasks[c].children # <<>>

\* the task whose parse returned last
Returned(t) ==
    /\ \E i \in DOMAIN parseLog : parseLog[i] = t
    /\ ~(crashed /\ parseLog[Len(parseLog)] = t)

\* C5: calling ModuleTask.parse a second time on unchanged input gives the
\* finished Module tree the first call gave (the same merged Class nodes,
\* member order and submodule Imports), and generate writes that tree.
C5_SecondParseSame ==
    /\ \A t \in reparsed :
           Returned(t) => TreeView(nodes, tasks[t].doctree) = firstTree[t]
    /\ \A o \in outputs : o.tree = firstTree[o.task]

\* every place of a container: the container and the position in it
Slots ==
    UNION {{<<c, i>> : i \in DOMAIN nodes[c].children} : c \in DOMAIN nodes}

Held(slot) == nodes[slot[1]].children[slot[2]]

C9_OneOwner ==
    /\ \A a, b \in Slots : Held(a) = Held(b) => a = b
    /\ \A a \in Slots : nodes[Held(a)].parent = a[1]
    /\ \A n \in DOMAIN nodes :
           nodes[n].parent # 0 => \E a \in Slots : Held(a) = n

C9_Transfer ==
    \A t \in DOMAIN tasks :
        (/\ parseLog' = Append(parseLog, t)
         /\ IsModuleTask(tasks, t)
         /\ ~crashed') =>
            \A c \in Range(ClassChildren(tasks, t)) :
                \A n \in Range(Traverse(nodes, tasks[c].doctree, "Class")) :
                    /\ nodes'[n].parent = ModuleNode(tasks', nodes', t)
                    /\ n \in Range(nodes'[ModuleNode(tasks', nodes', t)].children)
                    /\ n \notin Range(Descendants(nodes', tasks'[c].doctree))

\* C9: merging transfers ownership: after ModuleTask.parse every Class node
\* that was in the tree of a direct Class child Task is a child of the
\* Module node and is no longer in the child's tree; at every step a node
\* has one parent container, and is in no two containers nor twice in one.
C9_OwnershipTransfer == []C9_OneOwner /\ [][C9_Transfer]_vars

C9_Witness ==
    \E t \in DOMAIN tasks :
        /\ IsModuleTask(tasks, t) /\ Returned(t)
        /\ \E c \in Range(ClassChildren(tasks, t)) :
               /\ content[tasks[c].source] = "nested"
               /\ Traverse(nodes, tasks[c].doctree, "Class") = <<>>
        /\ Len(SelectSeq(nodes[ModuleNode(tasks, nodes, t)].children,
                         LAMBDA n : nodes[n].kind = "Class")) >= 2

\* the positions of the Module's children that are Imports of "."
DotImports(module) ==
    {i \in DOMAIN nodes[module].children :
        /\ nodes[nodes[module].children[i]].kind = "Import"
        /\ nodes[nodes[module].children[i]].name = <<".">>}

HasDocstring(module) ==
    \E i \in DOMAIN nodes[module].children :
        nodes[nodes[module].children[i]].kind = "docstring"

C10_Imports(t) ==
    LET module == ModuleNode(tasks, nodes, t)
        cs == nodes[module].children
        subs == ModuleChildren(tasks, t)
        k == Len(subs)
        at == IF HasDocstring(module) THEN 1 ELSE 0
    IN  /\ HasDocstring(module) => nodes[cs[1]].kind = "docstring"
        /\ DotImports(module) = (at + 1)..(at + k)
        /\ \A j \in 1..k :
               nodes[cs[at + k - j + 1]].type =
                   LocaliseName(nodes[module].name,
                                nodes[ModuleNode(tasks, nodes, subs[j])].name)

\* C10: after ModuleTask.parse the Module node holds one Import of "." per
\* Module child Task; these Imports are contiguous, start right after the
\* docstring node when there is one and at the first position otherwise,
\* and were inserted there in the order the child Tasks were enumerated (so
\* the child enumerated last comes first).
C10_ImportsAfterDocstring ==
    \A t \in DOMAIN tasks :
        (IsModuleTask(tasks, t) /\ Returned(t)) => C10_Imports(t)

C10_Witness ==
    \E t \in DOMAIN tasks :
        /\ IsModuleTask(tasks, t) /\ Returned(t)
        /\ HasDocstring(ModuleNode(tasks, nodes, t))
        /\ Len(ModuleChildren(tasks, t)) >= 2
        /\ Len(nodes[ModuleNode(tasks, nodes, t)].children) >= 5

----------------------------------------------------------------------------
(* Signatures (bpystubgen.nodes, exercised by tests/test_function.py).     *)

\* the names of the Classes that are members of the Module
LocalClasses(ns, module) ==
    {ns[ns[module].children[i]].name :
        i \in {j \in DOMAIN ns[module].children :
                  ns[ns[module].children[j]].kind = "Class"}}

\* the localisation that strips the module's name from any type carrying it
LocaliseAnyType(ns, module, type) == LocaliseName(ns[module].name, type)

\* a type of the form <module>.<Class>, Class being defined in the Module,
\* is the bare Class; any other type is kept
LocaliseType(ns, module, type) ==
    IF /\ LocaliseName(ns[module].name, type) # type
       /\ LocaliseName(ns[module].name, type) \in LocalClasses(ns, module)
    THEN LocaliseName(ns[module].name, type)
    ELSE type

NoValue == <<"N", "o", "n", "e">>
AnyType == <<"t", "y", "p", "i", "n", "g", ".", "A", "n", "y">>

\* the type a signature shows for the node n of the function f
ShownType(ns, f, n, default) ==
    IF ns[n].type = None THEN default
    ELSE IF ns[f].parent # 0 /\ ns[ns[f].parent].kind = "Module"
    THEN LocaliseType(ns, ns[f].parent, ns[n].type)
    ELSE ns[n].type

\* def <name>(<arg>: <type>, ...) -> <type>:
SignatureText(name, args, result) ==
    <<"d", "e", "f", " ">> \o name \o <<"(">>
    \o JoinText([i \in DOMAIN args |->
                    args[i].name \o <<":", " ">> \o args[i].type],
                <<",", " ">>)
    \o <<")", " ", "-", ">", " ">> \o result \o <<":">>

\* Function.signature of a function of module scope, read when asked for
Signature(ns, f) ==
    SignatureText(ns[f].name,
        [i \in DOMAIN ns[f].children |->
            [name |-> ns[ns[f].children[i]].name,
             type |-> ShownType(ns, f, ns[f].children[i], AnyType)]],
        ShownType(ns, f, f, NoValue))

TypeUniverse ==
    { None, <<"C">>, <<"b", ".", "C">>, <<"b", ".", "N">>, <<"p", ".", "C">>,
      <<"b", ".", "c", ".", "C">> }

ClassNames == {<<"C">>, <<"N">>}

TheModule == 1
TheFunction == 2

\* the i-th argument's name
ArgName(i) == [j \in 1..i |-> "x"]

\* module = Module(name="b"); func = Function(name="n")
InitSig ==
    /\ files = {}
    /\ phase = "init"
    /\ pending = <<>>
    /\ tasks = <<NewTask>>
    /\ assigned = <<0>>
    /\ order = <<>>
    /\ cursor = 1
    /\ parseLog = <<>>
    /\ crashed = FALSE
    /\ content = <<>>
    /\ nodes = <<NewNode("Module", <<"b">>, None),
                 NewNode("Function", <<"n">>, None)>>
    /\ firstTree = <<NoTree>>
    /\ reparsed = {}
    /\ outputs = {}

NodesOnly ==
    UNCHANGED <<files, phase, pending, tasks, assigned, order, cursor,
                parseLog, crashed, content, firstTree, reparsed, outputs>>

\* func.type = type, or arg.type = type
SetType(n, type) ==
    /\ nodes[n].kind \in {"Function", "Argument"}
    /\ nodes' = [nodes EXCEPT ![n].type = type]
    /\ NodesOnly

\* func += Argument(name, type)
AddArgument(type) ==
    /\ Len(nodes[TheFunction].children) < MaxArgs
    /\ nodes' = NodeAppend(
                    AddNode(nodes, "Argument",
                            ArgName(Len(nodes[TheFunction].children) + 1), type),
                    TheFunction, Len(nodes) + 1)
    /\ NodesOnly

\* module += Class(name)
AttachClass(name) ==
    /\ name \notin LocalClasses(nodes, TheModule)
    /\ nodes' = NodeAppend(AddNode(nodes, "Class", name, None),
                           TheModule, Len(nodes) + 1)
    /\ NodesOnly

\* module += func
AttachFunction ==
    /\ nodes[TheFunction].parent = 0
    /\ nodes' = NodeAppend(nodes, TheModule, TheFunction)
    /\ NodesOnly

NextSig ==
    \/ \E n \in DOMAIN nodes, type \in TypeUniverse : SetType(n, type)
    \/ \E type \in TypeUniverse : AddArgument(type)
    \/ \E name \in ClassNames : AttachClass(name)
    \/ AttachFunction

SpecSig == InitSig /\ [][NextSig]_vars

\* the type the claim expects where the function's Module is m
ExpectedType(m, type, default) ==
    IF type = None THEN default
    ELSE IF \E c \in DOMAIN nodes :
                /\ nodes[c].kind = "Class" /\ nodes[c].parent = m
                /\ type = nodes[m].name \o <<".">> \o nodes[c].name
    THEN SubSeq(type, Len(nodes[m].name) + 2, Len(type))
    ELSE type

\* C6: in the signature of a Function attached to a Module named M, a
\* return or argument type of the exact form M.C, C being a Class defined in
\* the Module, shows as the bare C; any other qualified type shows unchanged
\* and an unqualified name is never rewritten, whether the types were set
\* before or after the Function and the Classes were attached.
C6_TypeLocalisation ==
    \A f \in DOMAIN nodes :
        (/\ nodes[f].kind = "Function" /\ nodes[f].parent # 0
         /\ nodes[nodes[f].parent].kind = "Module") =>
            Signature(nodes, f) =
                SignatureText(nodes[f].name,
                    [i \in DOMAIN nodes[f].children |->
                        [name |-> nodes[nodes[f].children[i]].name,
                         type |-> ExpectedType(nodes[f].parent,
                                      nodes[nodes[f].children[i]].type,
                                      AnyType)]],
                    ExpectedType(nodes[f].parent, nodes[f].type, NoValue))

\* the function is attached before the class its return type names; one
\* argument names a class of the module that is not defined, one a class of
\* another module
C6_Witness ==
    /\ Len(nodes[TheModule].children) = 2
    /\ nodes[TheModule].children[1] = TheFunction
    /\ nodes[nodes[TheModule].children[2]].name = <<"C">>
    /\ nodes[TheFunction].type = <<"b", ".", "C">>
    /\ Len(nodes[TheFunction].children) = 2
    /\ nodes[nodes[TheFunction].children[1]].type = <<"b", ".", "N">>
    /\ nodes[nodes[TheFunction].children[2]].type = <<"p", ".", "C">>
    /\ Signature(nodes, TheFunction) =
           <<"d", "e", "f", " ", "n", "(",
             "x", ":", " ", "b", ".", "N", ",", " ",
             "x", "x", ":", " ", "p", ".", "C",
             ")", " ", "-", ">", " ", "C", ":">>

====
